---- MODULE Spec2Model ----
(***************************************************************************)
(* WebGLRenderer (src/unnamed/part_000): the texture slot table and        *)
(* bindTexture/unbindTexture, the object-renderer hand-off                 *)
(* (setObjectRenderer/flush), the frame (render) and the context           *)
(* lifecycle (_initContext, handleContextLost, handleContextRestored).     *)
(*                                                                         *)
(* The renderer's mutable state and the WebGL driver it talks to are kept  *)
(* in the variables below.  Every method is an operator from a "world"     *)
(* record (the values of those variables while the method runs) to the     *)
(* world it leaves behind, so that a method can call another one           *)
(* (_initContext calls bindTexture, flush calls setObjectRenderer).        *)
(***************************************************************************)
EXTENDS Integers, Sequences, FiniteSets, TLC

\* ------------------------------------------------------------------ bounds
\* gl.getParameter(gl.MAX_TEXTURE_IMAGE_UNITS): the hardware unit count
MaxTextures == 3
\* context generations the driver goes through (loss/restore cycles)
MaxGen == 1
\* cap of the garbage collector's frame counter
MaxCount == 1

\* threshold of idle frames of the texture garbage collector
MaxIdle == 0

\* ------------------------------------------------------------ value space
Undefined == -1
NoValue == -1
Thrown == -2

\* the caller-side textures: three plain base textures, one base texture
\* that carries a _newTexture, and a Texture view whose baseTexture is A
PlainNames == {"A", "B", "C"}
NewTextureNames == {"X"}
BaseNames == PlainNames \cup NewTextureNames
ViewNames == {"vA"}
Null == "null"
TexArgs == BaseNames \cup ViewNames
Renderers == {"empty", "sprite", "mesh"}
UIDs == 0..MaxGen

\* object references held by the slot table
Base(n) == [kind |-> "base", name |-> n, slot |-> -1, made |-> -1]
Empty(i, g) == [kind |-> "empty", name |-> "", slot |-> i, made |-> g]
TempObj == [kind |-> "temp", name |-> "", slot |-> -1, made |-> -1]
Hole == [kind |-> "undefined", name |-> "", slot |-> -1, made |-> -1]

\* GL texture objects: what was created, and in which context generation
NoHandle == [tex |-> "none", gen |-> -1]
Handle(n, g) == [tex |-> n, gen |-> g]
EmptyGLTexture(g) == Handle("emptyGL", g)

\* vertex array objects: the caller's, made by createVao() in a context
\* generation, and null
VaoNames == {"v1", "v2"}
Vao(n, g) == [name |-> n, gen |-> g]
NoVao == Vao("null", -1)

NoEmpty == [ref |-> Hole, glTextures |-> [u \in UIDs |-> NoHandle]]

\* one effect issued by a method, in program order
Eff(op, n, h, who) == [op |-> op, n |-> n, h |-> h, who |-> who]
Call(op, tex, loc, force, who) ==
    [op |-> op, tex |-> tex, loc |-> loc, force |-> force, who |-> who]

VARIABLES
    gl,                  \* this.gl: "ctx", or "null" after destroy
    contextLost,         \* gl.isContextLost()
    ctxGen,              \* generation of the driver's context
    lostEventPending,    \* webglcontextlost queued, not yet dispatched
    defaultPrevented,    \* event.preventDefault() was called on it
    listening,           \* the two context listeners are attached to the view
    driver,              \* [active, units]: active unit, TEXTURE_2D binding per unit
    CONTEXT_UID,         \* this.CONTEXT_UID
    boundTextures,       \* this.boundTextures
    emptyTextures,       \* this.emptyTextures
    nextTextureLocation, \* this._nextTextureLocation
    glTextures,          \* texture._glTextures of the caller's base textures
    touched,             \* texture.touched of the caller's base textures
    managedTextures,     \* textures known to this.textureManager
    gcCount,             \* this.textureGC.count
    maxIdle,             \* this.textureGC.maxIdle: the idle-frame threshold
    activeVao,           \* this._activeVao
    currentRenderer,     \* this.currentRenderer
    appliedState,        \* state last applied to this.state
    pc,                  \* "idle", or "frame" inside render's scene traversal
    call,                \* the last method invoked, with its arguments
    ret,                 \* its return value (Thrown: it raised a TypeError)
    log                  \* the effects it issued, in program order

vars == <<gl, contextLost, ctxGen, lostEventPending, defaultPrevented,
          listening, driver,
          CONTEXT_UID, boundTextures, emptyTextures,
          nextTextureLocation, glTextures, touched, managedTextures, gcCount,
          maxIdle, activeVao, currentRenderer, appliedState, pc, call, ret, log>>

\* --------------------------------------------------------- world records
\* the state a method starts from: no effect issued yet, nothing returned
World ==
    [bt |-> boundTextures, et |-> emptyTextures, nxt |-> nextTextureLocation,
     drv |-> driver, glT |-> glTextures, tch |-> touched,
     mng |-> managedTextures, cnt |-> gcCount, idle |-> maxIdle,
     vao |-> activeVao,
     lost |-> contextLost,
     gen |-> ctxGen, uid |-> CONTEXT_UID,
     cur |-> currentRenderer, st |-> appliedState, gl |-> gl, pc |-> pc,
     log |-> <<>>, ret |-> NoValue]

Commit(w) ==
    /\ boundTextures' = w.bt
    /\ emptyTextures' = w.et
    /\ nextTextureLocation' = w.nxt
    /\ driver' = w.drv
    /\ glTextures' = w.glT
    /\ touched' = w.tch
    /\ managedTextures' = w.mng
    /\ gcCount' = w.cnt
    /\ maxIdle' = w.idle
    /\ activeVao' = w.vao
    /\ contextLost' = w.lost
    /\ ctxGen' = w.gen
    /\ CONTEXT_UID' = w.uid
    /\ currentRenderer' = w.cur
    /\ appliedState' = w.st
    /\ gl' = w.gl
    /\ pc' = w.pc
    /\ log' = w.log
    /\ ret' = w.ret

Emit(w, e) == [w EXCEPT !.log = Append(@, e)]
Return(w, v) == [w EXCEPT !.ret = v]
Throw(w) == [w EXCEPT !.ret = Thrown]

Min(S) == CHOOSE x \in S : \A y \in S : x <= y
ArrayLength(a) == Cardinality(DOMAIN a)

\* ------------------------------------------------------------ the driver
\* gl.activeTexture(gl.TEXTURE0 + i); a lost context ignores every call
GlActiveTexture(w, i) ==
    LET w1 == Emit(w, Eff("activeTexture", i, NoHandle, ""))
    IN  IF w1.lost THEN w1 ELSE [w1 EXCEPT !.drv.active = i]

\* gl.bindTexture(gl.TEXTURE_2D, h); an object of another context
\* generation is invalid: INVALID_OPERATION, the binding stays
GlBindTexture(w, h) ==
    LET w1 == Emit(w, Eff("bindTexture", w.drv.active, h, ""))
    IN  IF w1.lost \/ h.gen # w1.gen THEN w1
        ELSE [w1 EXCEPT !.drv.units[w1.drv.active] = h]

\* vao.bind(): the vertex array becomes the driver's bound one; a lost
\* context ignores the call and an object of another context generation is
\* invalid
VaoBind(w, vao) ==
    LET w1 == Emit(w, Eff("vao.bind", vao.gen, NoHandle, vao.name))
    IN  IF w1.lost \/ vao.gen # w1.gen THEN w1
        ELSE [w1 EXCEPT !.drv.vao = vao]

\* vao.unbind(): the driver is left with no vertex array bound
VaoUnbind(w, vao) ==
    LET w1 == Emit(w, Eff("vao.unbind", vao.gen, NoHandle, vao.name))
    IN  IF w1.lost THEN w1 ELSE [w1 EXCEPT !.drv.vao = NoVao]

\* --------------------------------------------------------- bindTexture
\* texture.baseTexture || texture
BaseTexture(texture) ==
    IF texture \in ViewNames THEN Base("A") ELSE Base(texture)

HasNewTexture(tex) == tex.kind = "base" /\ tex.name \in NewTextureNames

\* texture._glTextures[this.CONTEXT_UID]
GlTextureOf(w, tex) ==
    IF tex.kind = "base" THEN w.glT[tex.name][w.uid]
    ELSE IF tex.kind = "empty" /\ w.et[tex.slot].ref = tex
         THEN w.et[tex.slot].glTextures[w.uid]
         ELSE NoHandle

\* the stamp left out
TouchNever(w, tex) == w

\* texture.touched = this.textureGC.count (the stamp of a placeholder is
\* never read: the collector only walks the manager's textures)
Touch(w, tex) ==
    IF tex.kind = "base" THEN [w EXCEPT !.tch[tex.name] = w.cnt] ELSE w

\* the scan started one slot too late
FindBoundFromOne(bt, tex) ==
    LET hits == {i \in DOMAIN bt : i >= 1 /\ bt[i] = tex}
    IN  IF hits = {} THEN -1 ELSE Min(hits)

\* the scan of lines 402-408: the first slot holding the texture, or -1
FindBound(bt, tex) ==
    LET hits == {i \in DOMAIN bt : bt[i] = tex}
    IN  IF hits = {} THEN -1 ELSE Min(hits)

\* lines 412-413: the wrapped counter
NextCounter(n, len) == (n + 1) % len

\* the counter itself taken as the slot
CounterLocationForward(n, len) == n

\* line 414: the slot chosen from the counter
CounterLocation(n, len) == len - n - 1

\* the slot of a forced bind taken as given, with no default
ForcedLocationAsGiven(location) == IF location = Undefined THEN 1 ELSE location

\* line 419: location || 0
ForcedLocation(location) == IF location = Undefined THEN 0 ELSE location

\* TextureManager.updateTexture(texture, location): creates the GL texture
\* of this context when it is missing, binds it at the unit and records
\* the occupancy
UpdateTexture(w, tex, location) ==
    LET h == IF w.glT[tex.name][w.uid] = NoHandle
             THEN Handle(tex.name, w.gen) ELSE w.glT[tex.name][w.uid]
        w1 == [w EXCEPT !.bt[location] = tex,
                        !.glT[tex.name][w.uid] = h,
                        !.mng = @ \cup {tex.name}]
    IN  GlBindTexture(GlActiveTexture(
            Emit(w1, Eff("updateTexture", location, NoHandle, tex.name)),
            location), h)

\* lines 425-431: this.newTextureManager.bindTexture(...).  The renderer
\* never assigns newTextureManager (the constructor keeps its
\* NewTextureManager as this.texture, line 126), so the member read is
\* undefined and the call raises a TypeError
NewTextureBind(w, tex, location) == Throw(w)

\* lines 422-450: the bind proper, once the slot is known
BindAt(w, tex, location) ==
    LET glTexture == GlTextureOf(w, tex)
    IN  IF HasNewTexture(tex) THEN NewTextureBind(w, tex, location)
        ELSE IF glTexture = NoHandle
        THEN Return(UpdateTexture(w, tex, location), location)
        ELSE IF w.bt[location] = tex THEN Return(w, location)
        ELSE Return(GlBindTexture(GlActiveTexture(
                        [w EXCEPT !.bt[location] = tex], location),
                        glTexture), location)

BindTexture(w, texture, location, forceLocation) ==
    IF texture = Null /\ location \notin DOMAIN w.et
    THEN Throw(w)  \* this.emptyTextures[undefined].baseTexture
    ELSE
    LET tex == IF texture = Null THEN w.et[location].ref
               ELSE BaseTexture(texture)
        w1 == Touch(w, tex)
        found == FindBound(w1.bt, tex)
        len == ArrayLength(w1.bt)
    IN  IF ~forceLocation
        THEN IF found # -1 THEN Return(w1, found)
             ELSE IF location = Undefined
             THEN LET n == NextCounter(w1.nxt, len)
                  IN  BindAt([w1 EXCEPT !.nxt = n], tex, CounterLocation(n, len))
             ELSE BindAt(w1, tex, location)
        ELSE BindAt(w1, tex, ForcedLocation(location))

\* -------------------------------------------------------- unbindTexture
\* the slot reset to the placeholder of slot 0 instead of its own
RECURSIVE UnbindFromFirstEmpty(_, _, _)
UnbindFromFirstEmpty(w, tex, i) ==
    IF i >= ArrayLength(w.bt) THEN w
    ELSE IF w.bt[i] = tex
    THEN UnbindFromFirstEmpty(GlBindTexture(GlActiveTexture(
                        [w EXCEPT !.bt[i] = w.et[0].ref], i),
                        w.et[0].glTextures[w.uid]), tex, i + 1)
    ELSE UnbindFromFirstEmpty(w, tex, i + 1)

\* the loop left at the first slot that held the texture
UnbindFromFirstHit(w, tex, i) ==
    LET hits == {j \in DOMAIN w.bt : j >= i /\ w.bt[j] = tex}
    IN  IF hits = {} THEN w
        ELSE LET j == Min(hits)
             IN  GlBindTexture(GlActiveTexture(
                     [w EXCEPT !.bt[j] = w.et[j].ref], j),
                     w.et[j].glTextures[w.uid])

\* lines 465-474: the loop from slot i on
RECURSIVE UnbindFrom(_, _, _)
UnbindFrom(w, tex, i) ==
    IF i >= ArrayLength(w.bt) THEN w
    ELSE IF w.bt[i] = tex
    THEN UnbindFrom(GlBindTexture(GlActiveTexture(
                        [w EXCEPT !.bt[i] = w.et[i].ref], i),
                        w.et[i].glTextures[w.uid]), tex, i + 1)
    ELSE UnbindFrom(w, tex, i + 1)

UnbindTexture(w, texture) == UnbindFrom(w, BaseTexture(texture), 0)

\* -------------------------------------------------------------- bindVao
\* bindVao(vao)
BindVao(w, vao) ==
    IF w.vao = vao THEN w
    ELSE LET w1 == IF vao # NoVao THEN VaoBind(w, vao)
                   ELSE IF w.vao # NoVao THEN VaoUnbind(w, w.vao)
                   ELSE w
         IN  [w1 EXCEPT !.vao = vao]

\* --------------------------------------------- object-renderer dispatch
\* the old renderer left running
StopNothing(w) == w

\* this.currentRenderer.stop()
StopCurrent(w) == Emit(w, Eff("stop", -1, NoHandle, w.cur))

\* this.currentRenderer.start()
StartCurrent(w) == Emit(w, Eff("start", -1, NoHandle, w.cur))

\* this.state.setState(objectRenderer.state)
SetState(w, objectRenderer) ==
    [Emit(w, Eff("setState", -1, NoHandle, objectRenderer))
        EXCEPT !.st = objectRenderer]

\* the assignment moved before stop(): the new renderer is stopped
HandOffAssignFirst(w, objectRenderer) ==
    StartCurrent(SetState(StopCurrent([w EXCEPT !.cur = objectRenderer]),
                          objectRenderer))

\* lines 340-344, in program order
HandOff(w, objectRenderer) ==
    StartCurrent(SetState([StopCurrent(w) EXCEPT !.cur = objectRenderer],
                          objectRenderer))

\* the identity check of lines 335-338 left out
SetObjectRendererUnchecked(w, objectRenderer) == HandOff(w, objectRenderer)

SetObjectRenderer(w, objectRenderer) ==
    IF w.cur = objectRenderer THEN w ELSE HandOff(w, objectRenderer)

\* the renderer flush() hands over to
FlushTarget == "empty"

\* the batch flushed in place, with no hand-over to the empty renderer
FlushInPlace(w) == Emit(w, Eff("flush", -1, NoHandle, w.cur))

Flush(w) == SetObjectRenderer(w, FlushTarget)

\* ------------------------------------------------ texture manager and GC
\* TextureManager.destroyTexture(texture): unbinds it and deletes the GL
\* texture of this context
DestroyTexture(w, n) ==
    LET w1 == UnbindTexture(w, n)
    IN  [Emit(w1, Eff("deleteTexture", -1, w1.glT[n][w1.uid], n))
            EXCEPT !.glT[n][w1.uid] = NoHandle, !.mng = @ \ {n}]

RECURSIVE DestroyAll(_, _)
DestroyAll(w, S) ==
    IF S = {} THEN w
    ELSE LET n == CHOOSE x \in S : TRUE
         IN  DestroyAll(DestroyTexture(w, n), S \ {n})

\* TextureGarbageCollector.update(): one tick
TextureGCUpdate(w) ==
    LET w1 == Emit([w EXCEPT !.cnt = @ + 1],
                   Eff("textureGC.update", -1, NoHandle, ""))
        idle == {n \in w1.mng : w1.cnt - w1.tch[n] > w1.idle}
    IN  DestroyAll(w1, idle)

\* TextureManager.removeAll(): drops the GL textures of the textures this
\* manager knows
RemoveAll(w) ==
    [Emit(w, Eff("textureManager.removeAll", -1, NoHandle, ""))
        EXCEPT !.glT = [n \in BaseNames |->
                           IF n \in w.mng
                           THEN [w.glT[n] EXCEPT ![w.uid] = NoHandle]
                           ELSE w.glT[n]],
               !.mng = {}]

\* ------------------------------------------------------ context lifecycle
\* the host restores the drawing buffer: a new generation, default state
FreshDriver ==
    [active |-> 0, units |-> [i \in 0..(MaxTextures - 1) |-> NoHandle],
     vao |-> NoVao]

RestoreDriver(w) ==
    [w EXCEPT !.lost = FALSE, !.gen = @ + 1, !.drv = FreshDriver]

\* the bindTexture(null, i) of line 253 left out
InitSlotUnbound(w, i) ==
    LET empty == [ref |-> Empty(i, w.gen),
                  glTextures |-> [u \in UIDs |->
                      IF u = w.uid THEN EmptyGLTexture(w.gen) ELSE NoHandle]]
    IN  [w EXCEPT !.bt[i] = TempObj, !.et[i] = empty]

\* lines 245-254: one round of the loop
InitSlot(w, i) ==
    LET empty == [ref |-> Empty(i, w.gen),
                  glTextures |-> [u \in UIDs |->
                      IF u = w.uid THEN EmptyGLTexture(w.gen) ELSE NoHandle]]
    IN  BindTexture([w EXCEPT !.bt[i] = TempObj, !.et[i] = empty],
                    Null, i, FALSE)

RECURSIVE InitSlots(_, _, _)
InitSlots(w, i, maxTextures) ==
    IF i >= maxTextures THEN w
    ELSE InitSlots(InitSlot(w, i), i + 1, maxTextures)

\* _initContext()
InitContext(w) ==
    LET maxTextures == MaxTextures
        w0 == IF w.lost
              THEN Emit(w, Eff("restoreContext", -1, NoHandle, "")) ELSE w
        w1 == [w0 EXCEPT !.bt = [i \in 0..(maxTextures - 1) |-> Hole],
                         !.et = [i \in 0..(maxTextures - 1) |-> NoEmpty],
                         !.mng = {},
                         !.cnt = 0,
                         !.st = "default"]
        w2 == InitSlots(w1, 0, maxTextures)
    IN  Return(Emit(Emit(w2, Eff("emit context", -1, NoHandle, "")),
                    Eff("resize", -1, NoHandle, "")), NoValue)

\* the id taken anew from the module counter on restore
HandleRestoredReissue(w) ==
    RemoveAll(InitContext([w EXCEPT !.uid = @ + 1]))

\* handleContextRestored()
HandleRestored(w) == RemoveAll(InitContext(w))

\* ------------------------------------------------------------------ frame
\* the context check of lines 282-285 left out
RenderHeadUnchecked(w, clear) ==
    LET w1 == Emit(w, Eff("prerender", -1, NoHandle, ""))
        w2 == [w1 EXCEPT !.nxt = 0, !.pc = "frame"]
        w3 == Emit(w2, Eff("renderTexture.bind", -1, NoHandle, ""))
        w4 == StartCurrent(w3)
    IN  IF clear
        THEN Emit(w4, Eff("renderTexture.clear", -1, NoHandle, ""))
        ELSE w4

\* render(): lines 277-311, up to the scene traversal
RenderHead(w, clear) ==
    LET w1 == Emit(w, Eff("prerender", -1, NoHandle, ""))
    IN  IF w1.gl = "null" \/ w1.lost THEN w1
        ELSE LET w2 == [w1 EXCEPT !.nxt = 0, !.pc = "frame"]
                 w3 == Emit(w2, Eff("renderTexture.bind", -1, NoHandle, ""))
                 w4 == StartCurrent(w3)
             IN  IF clear
                 THEN Emit(w4, Eff("renderTexture.clear", -1, NoHandle, ""))
                 ELSE w4

\* the collector's tick moved behind the driver flush
RenderTailTickLast(w) ==
    LET w1 == Emit(w, Eff("flush", -1, NoHandle, w.cur))
        w2 == Emit(w1, Eff("gl.flush", -1, NoHandle, ""))
        w3 == TextureGCUpdate(w2)
    IN  [Emit(w3, Eff("postrender", -1, NoHandle, "")) EXCEPT !.pc = "idle"]

\* render(): lines 317-325, after the scene traversal
RenderTail(w) ==
    LET w1 == Emit(w, Eff("flush", -1, NoHandle, w.cur))
        w2 == TextureGCUpdate(w1)
        w3 == Emit(w2, Eff("gl.flush", -1, NoHandle, ""))
    IN  [Emit(w3, Eff("postrender", -1, NoHandle, "")) EXCEPT !.pc = "idle"]

\* ------------------------------------------------------------------- Init
\* the constructor: context created, CONTEXT_UID taken from the module
\* counter, _initContext() run, _nextTextureLocation = 0
Constructed ==
    InitContext([bt |-> <<>>, et |-> <<>>, nxt |-> 0, drv |-> FreshDriver,
                 glT |-> [n \in BaseNames |-> [u \in UIDs |-> NoHandle]],
                 tch |-> [n \in BaseNames |-> 0], mng |-> {}, cnt |-> 0,
                 idle |-> MaxIdle, vao |-> NoVao,
                 lost |-> FALSE, gen |-> 0, uid |-> 0,
                 cur |-> "empty", st |-> "default", gl |-> "ctx",
                 pc |-> "idle", log |-> <<>>,
                 ret |-> NoValue])

\* the renderer and its context after the constructor
InitRenderer ==
    /\ gl = Constructed.gl
    /\ contextLost = FALSE
    /\ ctxGen = 0
    /\ lostEventPending = FALSE
    /\ defaultPrevented = FALSE
    /\ listening = TRUE
    /\ driver = Constructed.drv
    /\ CONTEXT_UID = 0
    /\ boundTextures = Constructed.bt
    /\ emptyTextures = Constructed.et
    /\ nextTextureLocation = 0
    /\ glTextures = Constructed.glT
    /\ touched = Constructed.tch
    /\ managedTextures = {}
    /\ gcCount = 0
    /\ activeVao = Constructed.vao
    /\ currentRenderer = "empty"
    /\ appliedState = "default"
    /\ pc = "idle"
    /\ call = Call("constructor", "", Undefined, FALSE, "")
    /\ ret = NoValue
    /\ log = Constructed.log

\* the collector with its default threshold
Init ==
    /\ InitRenderer
    /\ maxIdle = MaxIdle

\* the collector configured to let a texture idle for one frame more
InitPatient ==
    /\ InitRenderer
    /\ maxIdle = MaxIdle + 1

\* ---------------------------------------------------------------- actions
Locations == 0..(MaxTextures - 1)
Host == <<lostEventPending, defaultPrevented, listening>>

DoBindTexture(texture, location, forceLocation) ==
    /\ gl = "ctx"
    /\ Commit(BindTexture(World, texture, location, forceLocation))
    /\ call' = Call("bindTexture", texture, location, forceLocation, "")
    /\ UNCHANGED Host

\* bindTexture called with a texture of Ts and a location of Ls
BindTextureOver(Ts, Ls, forceLocation) ==
    \E texture \in Ts, location \in Ls :
        DoBindTexture(texture, location, forceLocation)

AnyTexture == TexArgs \cup {Null}
AnyLocation == Locations \cup {Undefined}

BindTextureCall == BindTextureOver(AnyTexture, AnyLocation, FALSE)

ForcedBindTextureCall == BindTextureOver(AnyTexture, AnyLocation, TRUE)

DoUnbindTexture(texture) ==
    /\ gl = "ctx"
    /\ Commit(UnbindTexture(World, texture))
    /\ call' = Call("unbindTexture", texture, Undefined, FALSE, "")
    /\ UNCHANGED Host

UnbindTextureOver(Ts) == \E texture \in Ts : DoUnbindTexture(texture)

UnbindTextureCall == UnbindTextureOver(TexArgs)

DoSetObjectRenderer(objectRenderer) ==
    /\ gl = "ctx"
    /\ Commit(SetObjectRenderer(World, objectRenderer))
    /\ call' = Call("setObjectRenderer", "", Undefined, FALSE, objectRenderer)
    /\ UNCHANGED Host

SetObjectRendererOver(Rs) ==
    \E objectRenderer \in Rs : DoSetObjectRenderer(objectRenderer)

SetObjectRendererCall == SetObjectRendererOver(Renderers)

DoBindVao(vao) ==
    /\ gl = "ctx"
    /\ Commit(BindVao(World, vao))
    /\ call' = Call("bindVao", vao.name, vao.gen, FALSE, "")
    /\ UNCHANGED Host

\* bindVao called with null or with a vertex array that createVao() made
\* in the current context
BindVaoCall ==
    \E vao \in {NoVao} \cup {Vao(n, ctxGen) : n \in VaoNames} : DoBindVao(vao)

FlushCall ==
    /\ gl = "ctx"
    /\ Commit(Flush(World))
    /\ call' = Call("flush", "", Undefined, FALSE, "")
    /\ UNCHANGED Host

\* render() up to the traversal; on a lost or absent context the whole
\* call.  No frame is begun once the collector has counted maxCount frames
RenderCallUpTo(maxCount) ==
    \E clear \in BOOLEAN :
        /\ pc = "idle"
        /\ gcCount < maxCount
        /\ Commit(RenderHead(World, clear))
        /\ call' = Call("render", "", Undefined, clear, "")
        /\ UNCHANGED Host

RenderCall == RenderCallUpTo(MaxCount)

\* the scene traversal returns and render() runs to its end
RenderReturn ==
    /\ pc = "frame"
    /\ Commit(RenderTail(World))
    /\ call' = Call("render end", "", Undefined, FALSE, "")
    /\ UNCHANGED Host

\* the driver loses the context; the host queues webglcontextlost
ContextLoss ==
    /\ gl = "ctx"
    /\ ~contextLost
    /\ contextLost' = TRUE
    /\ lostEventPending' = TRUE
    /\ defaultPrevented' = FALSE
    /\ call' = Call("context loss", "", Undefined, FALSE, "")
    /\ ret' = NoValue
    /\ log' = <<>>
    /\ UNCHANGED <<gl, listening, ctxGen, driver, CONTEXT_UID,
                   boundTextures, emptyTextures, nextTextureLocation,
                   glTextures, touched, managedTextures, gcCount,
                   maxIdle, activeVao, currentRenderer, appliedState, pc>>

\* the handler without its preventDefault()
HandleContextLostIdle ==
    /\ listening
    /\ lostEventPending
    /\ pc = "idle"
    /\ lostEventPending' = FALSE
    /\ call' = Call("handleContextLost", "", Undefined, FALSE, "")
    /\ ret' = NoValue
    /\ log' = <<>>
    /\ UNCHANGED <<gl, listening, defaultPrevented, contextLost, ctxGen,
                   driver, CONTEXT_UID, boundTextures, emptyTextures,
                   nextTextureLocation, glTextures, touched, managedTextures,
                   gcCount, maxIdle, activeVao, currentRenderer, appliedState, pc>>

\* handleContextLost(event): event.preventDefault()
HandleContextLost ==
    /\ listening
    /\ lostEventPending
    /\ pc = "idle"
    /\ lostEventPending' = FALSE
    /\ defaultPrevented' = TRUE
    /\ call' = Call("handleContextLost", "", Undefined, FALSE, "")
    /\ ret' = NoValue
    /\ log' = <<Eff("preventDefault", -1, NoHandle, "")>>
    /\ UNCHANGED <<gl, listening, contextLost, ctxGen, driver,
                   CONTEXT_UID, boundTextures, emptyTextures,
                   nextTextureLocation, glTextures, touched, managedTextures,
                   gcCount, maxIdle, activeVao, currentRenderer, appliedState, pc>>

\* the host restores the context and dispatches webglcontextrestored:
\* handleContextRestored()
HandleContextRestored ==
    /\ listening
    /\ contextLost
    /\ ~lostEventPending
    /\ defaultPrevented
    /\ pc = "idle"
    /\ ctxGen < MaxGen
    /\ Commit(HandleRestored(RestoreDriver(World)))
    /\ defaultPrevented' = FALSE
    /\ call' = Call("handleContextRestored", "", Undefined, FALSE, "")
    /\ UNCHANGED <<listening, lostEventPending>>

\* destroy(removeView): lines 567-601
Destroyed(w, loseContext) ==
    LET w1 == Emit(w, Eff("destroyPlugins", -1, NoHandle, ""))
        w2 == Emit(w1, Eff("removeEventListener", -1, NoHandle, ""))
        w3 == Emit(w2, Eff("textureManager.destroy", -1, NoHandle, ""))
        w4 == [w3 EXCEPT !.cur = "null", !.gl = "null"]
        w5 == Emit(w4, Eff("useProgram", -1, NoHandle, ""))
    IN  IF loseContext
        THEN [Emit(w5, Eff("loseContext", -1, NoHandle, "")) EXCEPT !.lost = TRUE]
        ELSE w5

\* destroy() with the two removeEventListener calls left out
DestroyCallKeepsHooks ==
    \E extension \in BOOLEAN :
        /\ gl = "ctx"
        /\ pc = "idle"
        /\ Commit(Destroyed(World, extension))
        /\ lostEventPending' = (lostEventPending \/ (extension /\ ~contextLost))
        /\ call' = Call("destroy", "", Undefined, extension, "")
        /\ UNCHANGED <<listening, defaultPrevented>>

\* whether the driver offers WEBGL_lose_context is the host's choice; a
\* loseContext() on a context that is not lost yet makes the host queue
\* webglcontextlost
DestroyCall ==
    \E extension \in BOOLEAN :
        /\ gl = "ctx"
        /\ pc = "idle"
        /\ Commit(Destroyed(World, extension))
        /\ listening' = FALSE
        /\ lostEventPending' = (lostEventPending \/ (extension /\ ~contextLost))
        /\ call' = Call("destroy", "", Undefined, extension, "")
        /\ UNCHANGED defaultPrevented

\* the host dispatches webglcontextlost and no listener is attached: no
\* handler runs and the default is not prevented
LostEventUnheard ==
    /\ ~listening
    /\ lostEventPending
    /\ lostEventPending' = FALSE
    /\ call' = Call("webglcontextlost", "", Undefined, FALSE, "")
    /\ ret' = NoValue
    /\ log' = <<>>
    /\ UNCHANGED <<gl, listening, defaultPrevented, contextLost, ctxGen,
                   driver, CONTEXT_UID, boundTextures, emptyTextures,
                   nextTextureLocation, glTextures, touched, managedTextures,
                   gcCount, maxIdle, activeVao, currentRenderer, appliedState, pc>>

\* the host restores a context whose loss had been handled and dispatches
\* webglcontextrestored, and no listener is attached
RestoredEventUnheard ==
    /\ ~listening
    /\ contextLost
    /\ ~lostEventPending
    /\ defaultPrevented
    /\ ctxGen < MaxGen
    /\ contextLost' = FALSE
    /\ ctxGen' = ctxGen + 1
    /\ driver' = FreshDriver
    /\ defaultPrevented' = FALSE
    /\ call' = Call("webglcontextrestored", "", Undefined, FALSE, "")
    /\ ret' = NoValue
    /\ log' = <<>>
    /\ UNCHANGED <<gl, listening, lostEventPending, CONTEXT_UID,
                   boundTextures, emptyTextures, nextTextureLocation,
                   glTextures, touched, managedTextures, gcCount,
                   maxIdle, activeVao, currentRenderer, appliedState, pc>>

Next ==
    \/ BindTextureCall
    \/ ForcedBindTextureCall
    \/ UnbindTextureCall
    \/ SetObjectRendererCall
    \/ FlushCall
    \/ RenderCall
    \/ RenderReturn
    \/ ContextLoss
    \/ HandleContextLost
    \/ HandleContextRestored
    \/ DestroyCall
    \/ LostEventUnheard
    \/ RestoredEventUnheard
    \/ BindVaoCall

Spec == Init /\ [][Next]_vars

\* ------------------------------------------------------- specifications
\* the host's side of the context lifecycle
ContextEvents == ContextLoss \/ HandleContextLost \/ HandleContextRestored

\* bindTexture without the force flag and unbindTexture, every argument
NextBind ==
    \/ BindTextureCall
    \/ UnbindTextureCall

SpecBind == Init /\ [][NextBind]_vars

\* a fresh renderer and nothing but binds with no force flag and no slot,
\* of as many distinct base textures as there are units
FreshTextures == {"A", "B", "X", "vA"}

NextFresh == BindTextureOver(FreshTextures, {Undefined}, FALSE)

SpecFresh == Init /\ [][NextFresh]_vars

\* the object-renderer hand-off inside and outside frames
NextDispatch ==
    \/ SetObjectRendererCall
    \/ FlushCall
    \/ RenderCall
    \/ RenderReturn
    \/ ContextEvents
    \/ DestroyCall

SpecDispatch == Init /\ [][NextDispatch]_vars

\* frames, binds and renderer switches across context loss and teardown
NextLost ==
    \/ BindTextureOver({"A", "B"}, {Undefined}, FALSE)
    \/ SetObjectRendererOver({"sprite"})
    \/ RenderCall
    \/ RenderReturn
    \/ ContextEvents
    \/ DestroyCall

SpecLost == Init /\ [][NextLost]_vars

\* binds of every kind followed by loss and restore
NextRestore ==
    \/ BindTextureOver({"A", "B"}, {Undefined}, FALSE)
    \/ BindTextureOver({Null}, {0}, FALSE)
    \/ BindTextureOver({"A"}, {1}, TRUE)
    \/ UnbindTextureOver({"A"})
    \/ ContextEvents

SpecRestore == Init /\ [][NextRestore]_vars

\* binds with and without the force flag, of every kind of texture and at
\* every slot, and unbinds, on a usable context
NextForced ==
    \/ BindTextureOver({"A", "B", "X", Null}, AnyLocation, TRUE)
    \/ BindTextureOver({"A", "B", "vA"}, {Undefined, 0}, FALSE)
    \/ UnbindTextureOver({"A", "vA", "B"})

SpecForced == Init /\ [][NextForced]_vars

\* binds with no force flag, with and without a suggested slot, in and
\* between frames
NextRound ==
    \/ BindTextureOver({"A", "B", "C", "X"}, {Undefined}, FALSE)
    \/ BindTextureOver({"A", "B"}, Locations, FALSE)
    \/ RenderCall
    \/ RenderReturn

SpecRound == Init /\ [][NextRound]_vars

\* teardown at any moment of the context lifecycle, and the host's
\* notifications after it
NextDestroy ==
    \/ BindTextureOver({"A"}, {Undefined}, FALSE)
    \/ SetObjectRendererOver({"sprite"})
    \/ RenderCall
    \/ RenderReturn
    \/ ContextEvents
    \/ DestroyCall
    \/ LostEventUnheard
    \/ RestoredEventUnheard

SpecDestroy == Init /\ [][NextDestroy]_vars

\* frames and binds under a collector that lets a texture idle for a frame
NextGC ==
    \/ BindTextureOver({"A", "B"}, {Undefined}, FALSE)
    \/ RenderCallUpTo(MaxCount + 1)
    \/ RenderReturn

SpecGC == InitPatient /\ [][NextGC]_vars

\* vertex arrays bound and unbound across loss and restore of the context
NextVao ==
    \/ BindVaoCall
    \/ SetObjectRendererOver({"sprite"})
    \/ ContextEvents

SpecVao == Init /\ [][NextVao]_vars

\* ------------------------------------------------------------------ claims
\* the base texture a bindTexture call asks for
RequestedTexture(c) ==
    IF c.tex = Null
    THEN IF c.loc \in DOMAIN emptyTextures
         THEN emptyTextures[c.loc].ref ELSE Hole
    ELSE BaseTexture(c.tex)

Stop(r) == Eff("stop", -1, NoHandle, r)
Start(r) == Eff("start", -1, NoHandle, r)
ApplyState(r) == Eff("setState", -1, NoHandle, r)

\* C1: a bindTexture call without the force flag for a texture that is
\* resident in slot i returns i, issues no driver call and leaves the slot
\* table and the driver's bindings as they were.
C1_NoRedundantRebind ==
    [][\A i \in DOMAIN boundTextures :
          (/\ call'.op = "bindTexture"
           /\ ~call'.force
           /\ boundTextures[i] = RequestedTexture(call'))
          => /\ ret' = i
             /\ log' = <<>>
             /\ boundTextures' = boundTextures
             /\ driver' = driver]_vars

\* a resident base texture was asked for again and the call returned its
\* slot without touching the driver
C1_Witness ==
    /\ call.op = "bindTexture"
    /\ ~call.force
    /\ call.tex \in TexArgs
    /\ ret \in DOMAIN boundTextures
    /\ boundTextures[ret] = BaseTexture(call.tex)
    /\ log = <<>>

\* C2: no two slots of the slot table hold the same texture.
C2_SlotExclusivity ==
    \A i, j \in DOMAIN boundTextures :
        boundTextures[i] = boundTextures[j] => i = j

\* two base textures are resident next to a slot that an unbind has reset
C2_Witness ==
    /\ call.op = "unbindTexture"
    /\ \E i, j, k \in DOMAIN boundTextures :
          /\ i # j
          /\ boundTextures[i].kind = "base"
          /\ boundTextures[j].kind = "base"
          /\ boundTextures[k].kind = "empty"
          /\ Len(log) > 0

\* C3: every bindTexture call returns a slot index, and that slot of the
\* table holds the base texture the call asked for.
C3_ReturnedSlotHoldsTexture ==
    call.op = "bindTexture"
        => /\ ret \in DOMAIN boundTextures
           /\ boundTextures[ret] = RequestedTexture(call)

\* C4: on a fresh renderer, binds with no force flag and no slot of at most
\* as many distinct textures as there are units each return a slot that
\* holds the texture, never evict a texture bound before, and are free of
\* driver calls when the texture is resident already.
C4_FreshBindsKeepDistinctSlots ==
    [][call'.op = "bindTexture"
          => /\ ret' \in DOMAIN boundTextures'
             /\ boundTextures'[ret'] = BaseTexture(call'.tex)
             /\ \A i \in DOMAIN boundTextures :
                   boundTextures[i].kind = "base"
                       => boundTextures'[i] = boundTextures[i]
             /\ (\E i \in DOMAIN boundTextures :
                   boundTextures[i] = BaseTexture(call'.tex))
                       => log' = <<>>]_vars

\* C5: setObjectRenderer(x) with x current calls no stop() and no start(),
\* applies no state and keeps the current renderer; and any
\* setObjectRenderer(x) leaves x current, so that a second call in a row is
\* that no-op.
C5_SwitchIdempotence ==
    [][call'.op = "setObjectRenderer"
          => /\ currentRenderer' = call'.who
             /\ call'.who = currentRenderer
                   => /\ log' = <<>>
                      /\ appliedState' = appliedState]_vars

\* setObjectRenderer(x) was called for a real renderer x that was current
C5_Witness ==
    /\ call.op = "setObjectRenderer"
    /\ call.who = "sprite"
    /\ currentRenderer = "sprite"
    /\ log = <<>>

\* C6: setObjectRenderer(next) with another renderer current stops the old
\* renderer, makes next current, applies next.state and starts next, in
\* this order and nothing else.
C6_HandOffOrder ==
    [][(call'.op = "setObjectRenderer" /\ call'.who # currentRenderer)
          => /\ log' = <<Stop(currentRenderer), ApplyState(call'.who),
                         Start(call'.who)>>
             /\ currentRenderer' = call'.who
             /\ appliedState' = call'.who]_vars

\* one real renderer handed over to another
C6_Witness ==
    /\ call.op = "setObjectRenderer"
    /\ log = <<Stop("sprite"), ApplyState("mesh"), Start("mesh")>>
    /\ currentRenderer = "mesh"

\* C7: after flush() the empty renderer is current; a renderer that was
\* current is stopped once and the empty one started, and with the empty
\* renderer current flush() does nothing.
C7_FlushIsSwitchToEmpty ==
    [][call'.op = "flush"
          => /\ currentRenderer' = "empty"
             /\ currentRenderer = "empty"
                   => /\ log' = <<>>
                      /\ appliedState' = appliedState
             /\ currentRenderer # "empty"
                   => log' = <<Stop(currentRenderer), ApplyState("empty"),
                               Start("empty")>>]_vars

\* flush() stopped a real renderer
C7_Witness ==
    /\ call.op = "flush"
    /\ currentRenderer = "empty"
    /\ Len(log) = 3
    /\ log[1] = Stop("mesh")

\* C8: render() on a lost or absent context raises nothing, issues nothing
\* but the pre-render notification and changes no renderer or driver state.
C8_LostRenderIsNoOp ==
    [][(call'.op = "render" /\ (contextLost \/ gl = "null"))
          => /\ ret' # Thrown
             /\ \A k \in DOMAIN log' : log'[k].op = "prerender"
             /\ UNCHANGED <<boundTextures, emptyTextures, currentRenderer,
                            nextTextureLocation, driver, gcCount, glTextures,
                            touched, managedTextures, appliedState, pc,
                            contextLost, gl>>]_vars

\* render() ran after the lost notification, with a texture resident, a
\* real renderer current and the slot counter off zero
C8_Witness ==
    /\ call.op = "render"
    /\ contextLost
    /\ ~lostEventPending
    /\ defaultPrevented
    /\ currentRenderer = "sprite"
    /\ nextTextureLocation # 0
    /\ \E i \in DOMAIN boundTextures : boundTextures[i].kind = "base"

\* render() ran on a destroyed renderer
C8_WitnessAbsent ==
    /\ call.op = "render"
    /\ gl = "null"

\* C9, as claimed: once the lost notification is in, every public
\* operation on the GPU is a no-op: no effect issued, nothing changed.
C9_LostOperationsAreNoOps ==
    [][(/\ contextLost
        /\ ~lostEventPending
        /\ call'.op \in {"bindTexture", "unbindTexture", "setObjectRenderer",
                         "flush", "render"})
          => /\ ret' # Thrown
             /\ \A k \in DOMAIN log' : log'[k].op = "prerender"
             /\ UNCHANGED <<boundTextures, currentRenderer, glTextures,
                            nextTextureLocation, appliedState>>]_vars

\* C9, amended: the lost notification prevents the host's default and
\* changes nothing of the renderer; while the context is lost the driver's
\* bindings stay as they are whatever is called, and render() issues
\* nothing but the pre-render notification.
C9_LostHandling ==
    [][/\ call'.op = "handleContextLost"
          => /\ defaultPrevented'
             /\ UNCHANGED <<gl, contextLost, boundTextures, emptyTextures,
                            nextTextureLocation, glTextures, touched,
                            managedTextures, gcCount, currentRenderer,
                            appliedState, CONTEXT_UID, driver, pc>>
       /\ (contextLost /\ call'.op \in {"bindTexture", "unbindTexture",
                                        "setObjectRenderer", "flush",
                                        "render", "render end"})
          => driver' = driver
       /\ (contextLost /\ call'.op = "render")
          => \A k \in DOMAIN log' : log'[k].op = "prerender"]_vars

\* a bind after the lost notification went to the driver all the same
C9_Witness ==
    /\ contextLost
    /\ ~lostEventPending
    /\ defaultPrevented
    /\ call.op = "bindTexture"
    /\ \E k \in DOMAIN log : log[k].op = "bindTexture"

\* C10: handleContextRestored leaves in every slot i a placeholder made in
\* the restored generation, with a GL texture of that generation under the
\* renderer's CONTEXT_UID, bound at unit i of the driver; nothing that was
\* in the table or among the placeholders before is in the table.
C10_RestoreRebindsPlaceholders ==
    [][call'.op = "handleContextRestored"
          => /\ DOMAIN boundTextures' = 0..(MaxTextures - 1)
             /\ \A i \in DOMAIN boundTextures' :
                   /\ emptyTextures'[i].ref = Empty(i, ctxGen')
                   /\ boundTextures'[i] = emptyTextures'[i].ref
                   /\ emptyTextures'[i].glTextures[CONTEXT_UID']
                          = EmptyGLTexture(ctxGen')
                   /\ driver'.units[i] = EmptyGLTexture(ctxGen')
                   /\ \A j \in DOMAIN boundTextures :
                         /\ boundTextures'[i] # boundTextures[j]
                         /\ boundTextures'[i] # emptyTextures[j].ref
             /\ ctxGen' > ctxGen
             /\ ~contextLost']_vars

\* the restore came after a loss with a base texture resident, whose GL
\* texture belongs to the lost generation
C10_Witness ==
    /\ call.op = "handleContextRestored"
    /\ ctxGen = 1
    /\ glTextures["A"][CONTEXT_UID].gen = 0
    /\ \A i \in DOMAIN boundTextures : boundTextures[i].kind = "empty"

\* C11, as claimed: a bindTexture call never hands the driver a GL texture
\* of another context generation than the current one, and a base texture
\* whose GL texture was made in an earlier generation is given to the
\* texture manager for upload when it is bound again.
C11_NoStaleHandleBound ==
    [][(call'.op = "bindTexture" /\ call'.tex \in PlainNames \cup ViewNames)
          => LET n == BaseTexture(call'.tex).name
                 h == glTextures[n][CONTEXT_UID]
             IN  /\ \A k \in DOMAIN log' :
                       log'[k].op = "bindTexture" => log'[k].h.gen = ctxGen
                 /\ (/\ h # NoHandle
                     /\ h.gen # ctxGen
                     /\ FindBound(boundTextures, Base(n)) = -1)
                       => \E k \in DOMAIN log' : log'[k].op = "updateTexture"]_vars

\* C12, as claimed: a context-restored notification gives the renderer a
\* CONTEXT_UID greater than the one it had.
C12_ContextIdReissued ==
    [][call'.op = "handleContextRestored" => CONTEXT_UID' > CONTEXT_UID]_vars

\* C12, amended: CONTEXT_UID is set by the constructor and by nothing else;
\* a context-restored notification leaves it as it was, so the handles of
\* every context generation are looked up under the same id.
C12_ContextIdKept ==
    [][/\ CONTEXT_UID' = CONTEXT_UID
       /\ call'.op = "handleContextRestored"
             => \A i \in DOMAIN emptyTextures' :
                   /\ emptyTextures'[i].glTextures[CONTEXT_UID].gen = ctxGen'
                   /\ ctxGen' # ctxGen]_vars

\* the context was restored into a new generation under the old id
C12_Witness ==
    /\ call.op = "handleContextRestored"
    /\ ctxGen = 1
    /\ CONTEXT_UID = 0
    /\ ~contextLost

\* C13: render() on a usable context issues, in this order, the pre-render
\* notification, the activation of the render target, start() of the
\* current renderer and the clear when asked for; after the scene
\* traversal, flush() of the current renderer, one tick of the garbage
\* collector with the releases it makes, the driver flush and the
\* post-render notification.  The collector's counter advances by one in
\* that tick and nowhere else.
C13_FrameOrder ==
    [][/\ (call'.op = "render" /\ ~contextLost /\ gl = "ctx")
          => /\ log' = <<Eff("prerender", -1, NoHandle, ""),
                         Eff("renderTexture.bind", -1, NoHandle, ""),
                         Start(currentRenderer)>>
                       \o (IF call'.force
                           THEN <<Eff("renderTexture.clear", -1, NoHandle, "")>>
                           ELSE <<>>)
             /\ pc' = "frame"
             /\ gcCount' = gcCount
       /\ call'.op = "render end"
          => LET n == Len(log')
             IN  /\ n >= 4
                 /\ log'[1] = Eff("flush", -1, NoHandle, currentRenderer)
                 /\ log'[2] = Eff("textureGC.update", -1, NoHandle, "")
                 /\ \A k \in 3..(n - 2) :
                       log'[k].op \in {"activeTexture", "bindTexture",
                                       "deleteTexture"}
                 /\ log'[n - 1] = Eff("gl.flush", -1, NoHandle, "")
                 /\ log'[n] = Eff("postrender", -1, NoHandle, "")
                 /\ gcCount' = gcCount + 1
                 /\ pc' = "idle"
       /\ gcCount' > gcCount => call'.op = "render end"]_vars

\* a frame ended with a real renderer current and its tick released a
\* texture
C13_Witness ==
    /\ call.op = "render end"
    /\ currentRenderer = "sprite"
    /\ log[1] = Eff("flush", -1, NoHandle, "sprite")
    /\ \E k \in DOMAIN log : log[k].op = "deleteTexture"

\* C14: unbindTexture(t) leaves no slot holding t's base texture; every slot
\* that held it holds the placeholder of that slot, for which the call
\* issued activeTexture of the unit and bindTexture of the placeholder's GL
\* texture and which a usable driver has bound at that unit; every other slot and every other unit of the driver are as
\* they were.
C14_UnbindResetsEverySlot ==
    [][call'.op = "unbindTexture"
          => LET tex == BaseTexture(call'.tex)
             IN  /\ DOMAIN boundTextures' = DOMAIN boundTextures
                 /\ emptyTextures' = emptyTextures
                 /\ \A i \in DOMAIN boundTextures :
                       /\ boundTextures'[i] # tex
                       /\ boundTextures[i] = tex
                          => LET h == emptyTextures[i].glTextures[CONTEXT_UID]
                             IN  /\ boundTextures'[i] = emptyTextures[i].ref
                                 /\ \E k \in 1..(Len(log') - 1) :
                                       /\ log'[k] = Eff("activeTexture", i,
                                                        NoHandle, "")
                                       /\ log'[k + 1].op = "bindTexture"
                                       /\ log'[k + 1].h = h
                                 /\ ~contextLost => driver'.units[i] = h
                       /\ boundTextures[i] # tex
                          => /\ boundTextures'[i] = boundTextures[i]
                             /\ driver'.units[i] = driver.units[i]]_vars

\* a texture that forced binds had put into two slots was unbound, next to
\* another resident texture
C14_Witness ==
    /\ call.op = "unbindTexture"
    /\ Len(log) = 4
    /\ \E i \in DOMAIN boundTextures :
          /\ boundTextures[i].kind = "base"
          /\ boundTextures[i] # BaseTexture(call.tex)

\* C17, as claimed, for a base texture without a _newTexture: a forced
\* bindTexture returns the slot given, or 0 when none is given, and issues
\* activeTexture of that unit and bindTexture whatever the slot table holds.
C17_ForcedAlwaysBinds ==
    [][(call'.op = "bindTexture" /\ call'.force /\ call'.tex \in PlainNames)
          => LET loc == IF call'.loc = Undefined THEN 0 ELSE call'.loc
             IN  /\ ret' = loc
                 /\ \E k \in 1..(Len(log') - 1) :
                       /\ log'[k] = Eff("activeTexture", loc, NoHandle, "")
                       /\ log'[k + 1].op = "bindTexture"]_vars

\* C17, amended: a forced bindTexture takes the slot given, or 0 when none
\* is given, without the scan for residency and without moving the slot
\* counter.  It raises when the texture carries a _newTexture or when the
\* texture is absent and no slot is given.  Otherwise it returns that slot
\* with the texture recorded there and no other slot changed: with no
\* driver call when the slot already holds the texture and the texture has
\* a GL texture under CONTEXT_UID, and else with activeTexture of the unit
\* and bindTexture of the texture's GL texture, also when the texture is
\* resident in another slot.
C17_ForcedBind ==
    [][(call'.op = "bindTexture" /\ call'.force)
          => LET loc == IF call'.loc = Undefined THEN 0 ELSE call'.loc
                 tex == RequestedTexture(call')
                 had == IF tex.kind = "base"
                        THEN glTextures[tex.name][CONTEXT_UID]
                        ELSE emptyTextures[loc].glTextures[CONTEXT_UID]
                 has == IF tex.kind = "base"
                        THEN glTextures'[tex.name][CONTEXT_UID]
                        ELSE emptyTextures'[loc].glTextures[CONTEXT_UID]
             IN  IF \/ call'.tex \in NewTextureNames
                    \/ (call'.tex = Null /\ call'.loc = Undefined)
                 THEN /\ ret' = Thrown
                      /\ log' = <<>>
                      /\ UNCHANGED <<boundTextures, driver,
                                     nextTextureLocation>>
                 ELSE /\ ret' = loc
                      /\ boundTextures'[loc] = tex
                      /\ \A i \in DOMAIN boundTextures :
                            i # loc => boundTextures'[i] = boundTextures[i]
                      /\ nextTextureLocation' = nextTextureLocation
                      /\ IF boundTextures[loc] = tex /\ had # NoHandle
                         THEN log' = <<>> /\ driver' = driver
                         ELSE /\ has # NoHandle
                              /\ \E k \in 1..(Len(log') - 1) :
                                    /\ log'[k] = Eff("activeTexture", loc,
                                                     NoHandle, "")
                                    /\ log'[k + 1] = Eff("bindTexture", loc,
                                                         has, "")
                              /\ driver'.units[loc] = has]_vars

\* a forced bind with no slot put into slot 0 a texture that was resident
\* in another slot, and went to the driver for it
C17_Witness ==
    /\ call.op = "bindTexture"
    /\ call.force
    /\ call.loc = Undefined
    /\ call.tex \in PlainNames
    /\ ret = 0
    /\ Len(log) = 2
    /\ \E i \in DOMAIN boundTextures :
          i # 0 /\ boundTextures[i] = boundTextures[0]

\* a forced bind at the slot that held the texture returned at once
C17_WitnessHeld ==
    /\ call.op = "bindTexture"
    /\ call.force
    /\ call.tex \in PlainNames
    /\ ret \in DOMAIN boundTextures
    /\ boundTextures[ret] = BaseTexture(call.tex)
    /\ log = <<>>

\* C20, as claimed: on a usable context the slot table has one entry per
\* texture unit, and the driver has bound at unit i the GL texture, made in
\* the current context generation, of the texture recorded in slot i.
C20_TableMirrorsDriver ==
    (gl = "ctx" /\ ~contextLost)
        => /\ DOMAIN boundTextures = 0..(MaxTextures - 1)
           /\ \A i \in DOMAIN boundTextures :
                 LET tex == boundTextures[i]
                     h == IF tex.kind = "base"
                          THEN glTextures[tex.name][CONTEXT_UID]
                          ELSE IF tex.kind = "empty"
                          THEN emptyTextures[tex.slot].glTextures[CONTEXT_UID]
                          ELSE NoHandle
                 IN  /\ h # NoHandle
                     /\ h.gen = ctxGen
                     /\ driver.units[i] = h

\* C18, as claimed: a bind with no force flag and no slot of a texture that
\* is not resident never takes the slot that the bind right before it has
\* just assigned.
C18_NeverMostRecentSlot ==
    [][(/\ call'.op = "bindTexture"
        /\ ~call'.force
        /\ call'.loc = Undefined
        /\ call'.tex \in PlainNames
        /\ \A i \in DOMAIN boundTextures :
              boundTextures[i] # BaseTexture(call'.tex)
        /\ call.op = "bindTexture"
        /\ ret \in DOMAIN boundTextures
        /\ log # <<>>)
          => ret' # ret]_vars

\* C18, amended: a bind with no force flag and no slot of a texture that is
\* not resident advances the counter by one modulo the number of units and
\* takes the slot (number of units - counter - 1); render() on a usable
\* context sets the counter to 0; nothing else moves the counter.
C18_CounterRule ==
    [][/\ (/\ call'.op = "bindTexture"
           /\ ~call'.force
           /\ call'.loc = Undefined
           /\ call'.tex \in TexArgs
           /\ \A i \in DOMAIN boundTextures :
                 boundTextures[i] # BaseTexture(call'.tex))
          => /\ nextTextureLocation' = (nextTextureLocation + 1) % MaxTextures
             /\ IF call'.tex \in NewTextureNames
                THEN ret' = Thrown
                ELSE /\ ret' = MaxTextures - nextTextureLocation' - 1
                     /\ boundTextures'[ret'] = BaseTexture(call'.tex)
       /\ (call'.op = "render" /\ gl = "ctx" /\ ~contextLost)
          => nextTextureLocation' = 0
       /\ nextTextureLocation' # nextTextureLocation
          => \/ call'.op = "render"
             \/ /\ call'.op = "bindTexture"
                /\ ~call'.force
                /\ call'.loc = Undefined]_vars

\* after a frame, a bind with no slot took the slot that the first such
\* bind takes
C18_Witness ==
    /\ call.op = "bindTexture"
    /\ ~call.force
    /\ call.loc = Undefined
    /\ gcCount >= 1
    /\ nextTextureLocation = 1
    /\ ret = MaxTextures - 2
    /\ log # <<>>

\* the start() and stop() calls among the effects l, and those on renderer r
StartStops(l) == SelectSeq(l, LAMBDA e : e.op \in {"start", "stop"})
StartStopsOf(l, r) == SelectSeq(StartStops(l), LAMBDA e : e.who = r)

\* C19, as claimed, over two calls in a row: on every object renderer
\* start() and stop() alternate, and the first call on it is start().
C19_StartStopAlternate ==
    [][\A r \in Renderers :
          LET now == StartStopsOf(log', r)
              all == StartStopsOf(log, r) \o now
          IN  /\ \A k \in 1..(Len(all) - 1) : all[k].op # all[k + 1].op
              /\ (call.op = "constructor" /\ now # <<>>)
                    => now[1].op = "start"]_vars

\* C19, amended: stop() is called only on the current renderer and only by
\* a switch to another one, which calls start() once, on the new one;
\* render() on a usable context calls start() on the current renderer and
\* stops nothing; no other call of render(), setObjectRenderer() or flush()
\* starts or stops a renderer.
C19_SwitchPairing ==
    [][call'.op \in {"render", "render end", "setObjectRenderer", "flush"}
          => StartStops(log') =
                IF currentRenderer' # currentRenderer
                THEN <<Stop(currentRenderer), Start(currentRenderer')>>
                ELSE IF call'.op = "render" /\ gl = "ctx" /\ ~contextLost
                THEN <<Start(currentRenderer)>>
                ELSE <<>>]_vars

\* render() started a real renderer that a switch had started before
C19_Witness ==
    /\ call.op = "render"
    /\ pc = "frame"
    /\ currentRenderer = "mesh"
    /\ StartStops(log) = <<Start("mesh")>>

\* C15, as claimed: destroy() issues a flush of the driver, detaches the
\* context listeners and nulls the context handle, the current renderer and
\* the slot table.
C15_DestroyFlushesAndNulls ==
    [][call'.op = "destroy"
          => /\ \E k \in DOMAIN log' : log'[k].op = "gl.flush"
             /\ ~listening'
             /\ gl' = "null"
             /\ currentRenderer' = "null"
             /\ DOMAIN boundTextures' = {}]_vars

\* C15, amended: destroy() detaches the context listeners and nulls the
\* context handle and the current renderer; it flushes and stops nothing
\* and leaves the slot table and the placeholders in place.  After it no
\* context handler runs, and whatever the host notifies, no field of the
\* renderer changes.
C15_DestroyDetaches ==
    [][/\ call'.op = "destroy"
          => /\ ~listening'
             /\ gl' = "null"
             /\ currentRenderer' = "null"
             /\ \E k \in DOMAIN log' : log'[k].op = "removeEventListener"
             /\ \A k \in DOMAIN log' :
                   log'[k].op \notin {"gl.flush", "flush", "stop"}
             /\ UNCHANGED <<boundTextures, emptyTextures>>
       /\ gl = "null"
          => /\ call'.op \notin {"handleContextLost", "handleContextRestored"}
             /\ UNCHANGED <<gl, listening, CONTEXT_UID, boundTextures,
                            emptyTextures, nextTextureLocation, glTextures,
                            touched, managedTextures, gcCount,
                            currentRenderer, appliedState, pc>>]_vars

\* the host restored the context of a destroyed renderer
C15_Witness ==
    /\ call.op = "webglcontextrestored"
    /\ gl = "null"
    /\ ctxGen = 1
    /\ \A i \in DOMAIN boundTextures : boundTextures[i].made # 1

\* the host notified the loss that destroy() itself had caused
C15_WitnessLost ==
    /\ call.op = "webglcontextlost"
    /\ gl = "null"
    /\ contextLost
    /\ ~defaultPrevented

C21_ActiveVaoMirrorsDriver ==
    [][/\ (call'.op = "bindVao" /\ log' # <<>>)
          => Vao(call'.tex, call'.loc) # activeVao
       /\ (gl' = "ctx" /\ ~contextLost') => driver'.vao = activeVao']_vars

\* the same with no loss of the context behind: as long as the context of
\* the constructor lives, the cache is the driver's binding
C21_MirrorsDriverInFirstContext ==
    (gl = "ctx" /\ ~contextLost /\ ctxGen = 0) => driver.vao = activeVao

====
